---- MODULE Spec2Model ----
(***************************************************************************)
(* Model of timed_cache.TimedCache (src/main.go): a map index plus a       *)
(* container/list recency list, swept lazily by purgeExpired.              *)
(*                                                                         *)
(* The recency list is a sequence of element handles, index 1 = Front(),   *)
(* index Len = Back().  An element that has been taken out of the list by  *)
(* List.Remove has its list/prev/next fields cleared, so Prev() on it      *)
(* yields nil; a handle that is not in the sequence models exactly that.   *)
(***************************************************************************)
EXTENDS Integers, Sequences, FiniteSets, TLC

\* ---------------------------------------------------------------- bounds
NumKeys == 2
MaxClock == 2
MaxDuration == 1
NumThreads == 2

Keys == 1..NumKeys
\* values are opaque to the cache: two distinct ones tell a write from no write
Values == {"a", "b"}
NoValue == "nil"
\* durations handed to NewTimedCache: negative, zero and positive
Durations == (0 - 1)..MaxDuration
\* element handles: as many as there can be entries
Handles == 1..NumKeys
Nil == 0
\* the goroutines that call the cache
Threads == 1..NumThreads

VARIABLES
    clock,        \* time.Now().Unix()
    duration,     \* TimedCache.duration
    onEvictCall,  \* TimedCache.onEvictCall # nil
    evictList,    \* TimedCache.evictList: handles, front first
    items,        \* TimedCache.items: key -> handle
    elems,        \* handle -> *entry (Element.Value)
    last,         \* record of the most recent call: arguments, results, callbacks
    written,      \* key -> value of its latest successful Add or Update, while stored
    mutex,        \* TimedCache.Mutex: the goroutine holding it, or Nil
    pc,           \* where each goroutine stands
    reenters      \* the callback calls a locking method of the same cache

vars ==
    <<clock, duration, onEvictCall, evictList, items, elems, last, written,
      mutex, pc, reenters>>

\* the state of the goroutines and of the lock
cvars == <<mutex, pc, reenters>>

\* ------------------------------------------------------ container/list
Range(f) == {f[x] : x \in DOMAIN f}

InList(l, e) == \E i \in 1..Len(l) : l[i] = e

IndexOf(l, e) == CHOOSE i \in 1..Len(l) : l[i] = e

Without(l, e) == LET Keep(x) == x # e IN SelectSeq(l, Keep)

\* List.Back
Back(l) == IF Len(l) = 0 THEN Nil ELSE l[Len(l)]

\* Element.Prev: nil once the element's list field was cleared by Remove
Prev(l, e) ==
    IF InList(l, e) /\ IndexOf(l, e) > 1 THEN l[IndexOf(l, e) - 1] ELSE Nil

\* List.Remove
ListRemove(l, e) == IF InList(l, e) THEN Without(l, e) ELSE l

\* List.PushFront
PushFront(l, e) == <<e>> \o l

\* List.MoveToFront
MoveToFront(l, e) ==
    IF ~InList(l, e) \/ l[1] = e THEN l ELSE <<e>> \o Without(l, e)

\* ---------------------------------------------------------------- maps
EmptyMap == [x \in {} |-> Nil]

MapDelete(m, k) == [x \in (DOMAIN m) \ {k} |-> m[x]]

MapPut(m, k, v) == [x \in (DOMAIN m) \cup {k} |-> IF x = k THEN v ELSE m[x]]

\* the elements still referenced by the list or by the map
Live(l, m, es) == [h \in (DOMAIN es) \cap (Range(l) \cup Range(m)) |-> es[h]]

\* a fresh *list.Element
NewHandle(c) ==
    CHOOSE h \in Handles :
        /\ h \notin DOMAIN c.elems
        /\ \A g \in Handles : g \notin DOMAIN c.elems => h <= g

\* ------------------------------------------------------------ the cache
\* the cache as a value: the three structures and the callback calls made
Cache == [evictList |-> evictList, items |-> items, elems |-> elems, log |-> <<>>]

\* entry{tm, key, value}
Entry(tm, key, value) == [tm |-> tm, key |-> key, value |-> value]

\* the comparison taken as "not younger than duration"
ExpiredAtBoundary(tm, now) == now - tm >= duration

Expired(tm, now) == now - tm > duration

\* the callback called twice for one eviction
CallbackTwice(log, key, value) ==
    IF onEvictCall THEN Append(Append(log, <<key, value>>), <<key, value>>) ELSE log

\* c.onEvictCall(key, value), when one is configured
Callback(log, key, value) ==
    IF onEvictCall THEN Append(log, <<key, value>>) ELSE log

\* removeElement that forgets to delete the key from the index map
removeElementKeepsIndex(c, e) ==
    LET l  == ListRemove(c.evictList, e)
        kv == c.elems[e]
    IN  [evictList |-> l,
         items     |-> c.items,
         elems     |-> Live(l, c.items, c.elems),
         log       |-> Callback(c.log, kv.key, kv.value)]

removeElement(c, e) ==
    LET l  == ListRemove(c.evictList, e)
        kv == c.elems[e]
        m  == MapDelete(c.items, kv.key)
    IN  [evictList |-> l,
         items     |-> m,
         elems     |-> Live(l, m, c.elems),
         log       |-> Callback(c.log, kv.key, kv.value)]

\* the loop of purgeExpired, standing at element e
RECURSIVE sweep(_, _, _)
sweep(c, e, now) ==
    IF e = Nil THEN c
    ELSE IF Expired(c.elems[e].tm, now)
         THEN LET c2 == removeElement(c, e)
              IN  sweep(c2, Prev(c2.evictList, e), now)
         ELSE c

purgeExpired(c, now) == sweep(c, Back(c.evictList), now)

\* ------------------------------------------------------------- snapshots
\* Element pointers are opaque: a cache is kept up to the naming of its
\* elements.  The element at position i of the list is named i; an element
\* the map holds but the list does not is named after those, in handle order.
NameOf(c, h) ==
    IF InList(c.evictList, h) THEN IndexOf(c.evictList, h)
    ELSE Len(c.evictList)
            + Cardinality({g \in Range(c.items) \cup DOMAIN c.elems :
                              ~InList(c.evictList, g) /\ g <= h})

Snap(c) ==
    LET hs == Range(c.evictList) \cup Range(c.items) \cup DOMAIN c.elems
        at(n) == CHOOSE h \in hs : NameOf(c, h) = n
    IN  [evictList |-> [i \in 1..Len(c.evictList) |-> i],
         items     |-> [k \in DOMAIN c.items |-> NameOf(c, c.items[k])],
         elems     |-> [n \in {NameOf(c, h) : h \in DOMAIN c.elems} |-> c.elems[at(n)]]]

\* no call is waiting to be taken by the caller
NoCall ==
    [op |-> "none", key |-> Nil, value |-> NoValue, now |-> 0, now2 |-> 0,
     pre |-> [evictList |-> <<>>, items |-> EmptyMap, elems |-> EmptyMap],
     mid |-> [evictList |-> <<>>, items |-> EmptyMap, elems |-> EmptyMap],
     ret |-> FALSE, val |-> NoValue, keys |-> <<>>, n |-> 0, log |-> <<>>]

Idle == last.op = "none"

\* NewTimedCache
Init ==
    /\ clock = 0
    /\ duration \in Durations
    /\ onEvictCall \in BOOLEAN
    /\ evictList = <<>>
    /\ items = EmptyMap
    /\ elems = EmptyMap
    /\ last = NoCall
    /\ written = EmptyMap
    /\ mutex = Nil
    /\ pc = [t \in Threads |-> "idle"]
    /\ reenters = FALSE

\* the wall clock moves on between calls
Tick ==
    /\ Idle
    /\ clock < MaxClock
    /\ clock' = clock + 1
    /\ UNCHANGED <<duration, onEvictCall, evictList, items, elems, last, written>>
    /\ UNCHANGED cvars

\* the values the caller has stored and not seen removed, once it has taken
\* the results of the call: a successful Add or Update writes the key's value,
\* a key that is no longer stored is dropped
Written ==
    [k \in DOMAIN items |->
        IF last.op \in {"Add", "Update"} /\ last.ret /\ last.key = k
        THEN last.value
        ELSE IF k \in DOMAIN written THEN written[k] ELSE NoValue]

\* the caller takes the results of the call and goes on
Proceed ==
    /\ ~Idle
    /\ last' = NoCall
    /\ written' = Written
    /\ UNCHANGED <<clock, duration, onEvictCall, evictList, items, elems>>
    /\ UNCHANGED cvars

\* ------------------------------------------------------------ operations
\* what one call did: the cache it leaves, the cache as the sweep left it,
\* the returned values and the clock value of its last time.Now()
Result(c, mid, ret, val, keys, n, now2) ==
    [c |-> c, mid |-> Snap(mid), ret |-> ret, val |-> val, keys |-> keys,
     n |-> n, now2 |-> now2]

\* Add that overwrites the value of a key that is present
AddOverwrite(c0, key, value, now, later) ==
    LET c == purgeExpired(c0, now) IN
    IF key \in DOMAIN c.items
    THEN Result([c EXCEPT !.elems[c.items[key]].value = value],
                c, FALSE, NoValue, <<>>, 0, now)
    ELSE LET h == NewHandle(c)
             d == [c EXCEPT !.evictList = PushFront(@, h),
                            !.items = MapPut(@, key, h),
                            !.elems = MapPut(@, h, Entry(later, key, value))]
         IN  Result(d, c, TRUE, NoValue, <<>>, 0, later)

AddOp(c0, key, value, now, later) ==
    LET c == purgeExpired(c0, now) IN
    IF key \in DOMAIN c.items
    THEN Result(c, c, FALSE, NoValue, <<>>, 0, now)
    ELSE LET h == NewHandle(c)
             d == [c EXCEPT !.evictList = PushFront(@, h),
                            !.items = MapPut(@, key, h),
                            !.elems = MapPut(@, h, Entry(later, key, value))]
         IN  Result(d, c, TRUE, NoValue, <<>>, 0, later)

\* Update that moves and stamps the element and does not store the value
UpdateNoWrite(c0, key, value, now, later) ==
    LET c == purgeExpired(c0, now) IN
    IF key \in DOMAIN c.items
    THEN LET ent == c.items[key]
             d == [c EXCEPT !.evictList = MoveToFront(@, ent),
                            !.elems[ent].tm = later]
         IN  Result(d, c, TRUE, NoValue, <<>>, 0, later)
    ELSE Result(c, c, FALSE, NoValue, <<>>, 0, now)

\* Update that stores the key when it is absent
UpdateUpsert(c0, key, value, now, later) ==
    AddOverwrite(c0, key, value, now, later)

\* Update that leaves the element where it is in the list
UpdateInPlace(c0, key, value, now, later) ==
    LET c == purgeExpired(c0, now) IN
    IF key \in DOMAIN c.items
    THEN LET ent == c.items[key]
             d == [c EXCEPT !.elems[ent].value = value,
                            !.elems[ent].tm = later]
         IN  Result(d, c, TRUE, NoValue, <<>>, 0, later)
    ELSE Result(c, c, FALSE, NoValue, <<>>, 0, now)

UpdateOp(c0, key, value, now, later) ==
    LET c == purgeExpired(c0, now) IN
    IF key \in DOMAIN c.items
    THEN LET ent == c.items[key]
             d == [c EXCEPT !.evictList = MoveToFront(@, ent),
                            !.elems[ent].value = value,
                            !.elems[ent].tm = later]
         IN  Result(d, c, TRUE, NoValue, <<>>, 0, later)
    ELSE Result(c, c, FALSE, NoValue, <<>>, 0, now)

\* Get that sets the time of the element and leaves it where it is
GetInPlace(c0, key, now, later) ==
    LET c == purgeExpired(c0, now) IN
    IF key \in DOMAIN c.items
    THEN LET ent == c.items[key]
             d == [c EXCEPT !.elems[ent].tm = later]
         IN  Result(d, c, TRUE, c.elems[ent].value, <<>>, 0, later)
    ELSE Result(c, c, FALSE, NoValue, <<>>, 0, now)

\* Get that moves the element but does not set its time
GetNoRefresh(c0, key, now, later) ==
    LET c == purgeExpired(c0, now) IN
    IF key \in DOMAIN c.items
    THEN LET ent == c.items[key]
             d == [c EXCEPT !.evictList = MoveToFront(@, ent)]
         IN  Result(d, c, TRUE, c.elems[ent].value, <<>>, 0, later)
    ELSE Result(c, c, FALSE, NoValue, <<>>, 0, now)

GetOp(c0, key, now, later) ==
    LET c == purgeExpired(c0, now) IN
    IF key \in DOMAIN c.items
    THEN LET ent == c.items[key]
             d == [c EXCEPT !.evictList = MoveToFront(@, ent),
                            !.elems[ent].tm = later]
         IN  Result(d, c, TRUE, c.elems[ent].value, <<>>, 0, later)
    ELSE Result(c, c, FALSE, NoValue, <<>>, 0, now)

ContainsOp(c0, key, now) ==
    LET c == purgeExpired(c0, now) IN
    Result(c, c, key \in DOMAIN c.items, NoValue, <<>>, 0, now)

\* Peek that moves the element to the front, as Get does
PeekTouching(c0, key, now) ==
    LET c == purgeExpired(c0, now) IN
    IF key \in DOMAIN c.items
    THEN Result([c EXCEPT !.evictList = MoveToFront(@, c.items[key])],
                c, TRUE, c.elems[c.items[key]].value, <<>>, 0, now)
    ELSE Result(c, c, FALSE, NoValue, <<>>, 0, now)

PeekOp(c0, key, now) ==
    LET c == purgeExpired(c0, now) IN
    IF key \in DOMAIN c.items
    THEN Result(c, c, TRUE, c.elems[c.items[key]].value, <<>>, 0, now)
    ELSE Result(c, c, FALSE, NoValue, <<>>, 0, now)

\* Remove that takes the element out without telling the callback
RemoveSilently(c0, key, now) ==
    LET c == purgeExpired(c0, now) IN
    IF key \in DOMAIN c.items
    THEN LET l == ListRemove(c.evictList, c.items[key])
             m == MapDelete(c.items, key)
         IN  Result([c EXCEPT !.evictList = l, !.items = m,
                              !.elems = Live(l, m, c.elems)],
                    c, TRUE, NoValue, <<>>, 0, now)
    ELSE Result(c, c, FALSE, NoValue, <<>>, 0, now)

RemoveOp(c0, key, now) ==
    LET c == purgeExpired(c0, now) IN
    IF key \in DOMAIN c.items
    THEN Result(removeElement(c, c.items[key]), c, TRUE, NoValue, <<>>, 0, now)
    ELSE Result(c, c, FALSE, NoValue, <<>>, 0, now)

\* the slice Keys fills: len(c.items) slots, written while walking the list
\* from Back() with Prev(); a slot the walk does not reach stays nil
KeysOf(c) ==
    [i \in 1..Cardinality(DOMAIN c.items) |->
        IF i <= Len(c.evictList)
        THEN c.elems[c.evictList[Len(c.evictList) + 1 - i]].key
        ELSE Nil]

KeysOp(c0, now) ==
    LET c == purgeExpired(c0, now) IN
    Result(c, c, FALSE, NoValue, KeysOf(c), 0, now)

LenOp(c0, now) ==
    LET c == purgeExpired(c0, now) IN
    Result(c, c, FALSE, NoValue, <<>>, Len(c.evictList), now)

PurgeExpiredOp(c0, now) ==
    LET c == purgeExpired(c0, now) IN
    Result(c, c, FALSE, NoValue, <<>>, 0, now)

\* the orders in which "range c.items" may visit the keys
Orders(m) ==
    {o \in [1..Cardinality(DOMAIN m) -> DOMAIN m] :
        \A i, j \in DOMAIN o : i # j => o[i] # o[j]}

\* the loop of Purge over the keys in order o, from position i
RECURSIVE purgeLoop(_, _, _)
purgeLoop(c, o, i) ==
    IF i > Len(o) THEN c
    ELSE purgeLoop([c EXCEPT !.log = Callback(@, o[i], c.elems[c.items[o[i]]].value),
                             !.items = MapDelete(@, o[i])],
                   o, i + 1)

\* Purge that empties the map and forgets to reset the list
PurgeKeepsList(c0, o, now) ==
    Result(purgeLoop(c0, o, 1), c0, FALSE, NoValue, <<>>, 0, now)

PurgeOp(c0, o, now) ==
    LET c == purgeLoop(c0, o, 1)
        d == [c EXCEPT !.evictList = <<>>, !.elems = Live(<<>>, c.items, @)]
    IN  Result(d, c0, FALSE, NoValue, <<>>, 0, now)

\* ---------------------------------------------------------------- actions
\* a call returns: its effects and results become the state
Return(op, key, value, result) ==
    \E r \in {result} : \E post \in {Snap(r.c)} :
        /\ clock' = r.now2
        /\ evictList' = post.evictList
        /\ items' = post.items
        /\ elems' = post.elems
        /\ last' = [op |-> op, key |-> key, value |-> value, now |-> clock,
                    now2 |-> r.now2, pre |-> Snap(Cache), mid |-> r.mid,
                    ret |-> r.ret, val |-> r.val, keys |-> r.keys, n |-> r.n,
                    log |-> r.c.log]
        /\ UNCHANGED <<duration, onEvictCall, written>>
        /\ UNCHANGED cvars

\* the clock values a second time.Now() of the same call may read
Later == {t \in clock..(clock + 1) : t <= MaxClock}

Add ==
    /\ Idle
    /\ \E key \in Keys, value \in Values, later \in Later :
        Return("Add", key, value, AddOp(Cache, key, value, clock, later))

Update ==
    /\ Idle
    /\ \E key \in Keys, value \in Values, later \in Later :
        Return("Update", key, value, UpdateOp(Cache, key, value, clock, later))

Get ==
    /\ Idle
    /\ \E key \in Keys, later \in Later :
        Return("Get", key, NoValue, GetOp(Cache, key, clock, later))

Contains ==
    /\ Idle
    /\ \E key \in Keys : Return("Contains", key, NoValue, ContainsOp(Cache, key, clock))

Peek ==
    /\ Idle
    /\ \E key \in Keys : Return("Peek", key, NoValue, PeekOp(Cache, key, clock))

Remove ==
    /\ Idle
    /\ \E key \in Keys : Return("Remove", key, NoValue, RemoveOp(Cache, key, clock))

KeysCall ==
    /\ Idle
    /\ Return("Keys", Nil, NoValue, KeysOp(Cache, clock))

LenCall ==
    /\ Idle
    /\ Return("Len", Nil, NoValue, LenOp(Cache, clock))

Purge ==
    /\ Idle
    /\ \E o \in Orders(items) : Return("Purge", Nil, NoValue, PurgeOp(Cache, o, clock))

PurgeExpired ==
    /\ Idle
    /\ Return("PurgeExpired", Nil, NoValue, PurgeExpiredOp(Cache, clock))

Next ==
    \/ Tick
    \/ Proceed
    \/ Add
    \/ Update
    \/ Get
    \/ Contains
    \/ Peek
    \/ Remove
    \/ KeysCall
    \/ LenCall
    \/ Purge
    \/ PurgeExpired

Spec == Init /\ [][Next]_vars
\* ================================================================ claims
\* the cache as the call left it
Post == [evictList |-> evictList, items |-> items, elems |-> elems]

\* the entries of a snapshot, front (newest) first
Entries(s) == [i \in 1..Len(s.evictList) |-> s.elems[s.evictList[i]]]

\* the entry the index map reaches for key k
EntryOf(s, k) == s.elems[s.items[k]]

\* the calls that begin with the sweep
SweepingOps ==
    {"Add", "Update", "Get", "Contains", "Peek", "Remove", "Keys", "Len",
     "PurgeExpired"}

Swept == last.op \in SweepingOps

\* the keys whose entry was older than duration when the call read the clock
ExpiredKeys ==
    {k \in DOMAIN last.pre.items : last.now - EntryOf(last.pre, k).tm > duration}

\* C1 (sweep completeness): once the sweep of a call has run, no entry whose
\* age now - tm is greater than duration is left in the list or the map.
C1_SweepComplete ==
    Swept =>
        /\ \A i \in 1..Len(last.mid.evictList) :
               last.now - Entries(last.mid)[i].tm <= duration
        /\ \A k \in DOMAIN last.mid.items :
               last.now - EntryOf(last.mid, k).tm <= duration

\* C2 (expired entries are never observable): a call made when key k is older
\* than duration behaves as if k were absent: Get, Peek, Contains, Update and
\* Remove of k report absence, Add of k inserts, Keys does not list k and Len
\* does not count it.
C2_ExpiredNeverObservable ==
    /\ (last.op \in {"Get", "Peek", "Contains", "Update", "Remove"}
            /\ last.key \in ExpiredKeys) => ~last.ret
    /\ (last.op = "Add" /\ last.key \in ExpiredKeys) => last.ret
    /\ last.op = "Keys" => \A i \in 1..Len(last.keys) : last.keys[i] \notin ExpiredKeys
    /\ last.op = "Len" =>
           last.n = Cardinality((DOMAIN last.pre.items) \ ExpiredKeys)

\* C3 (sweep soundness and boundary): the sweep keeps, unchanged and in the
\* list, every entry whose age is at most duration; Get and Peek of a key whose
\* age equals duration exactly find it and return its value.
C3_SweepSound ==
    Swept =>
        \A k \in DOMAIN last.pre.items :
            last.now - EntryOf(last.pre, k).tm <= duration =>
                /\ k \in DOMAIN last.mid.items
                /\ EntryOf(last.mid, k) = EntryOf(last.pre, k)
                /\ InList(last.mid.evictList, last.mid.items[k])
                /\ (last.op \in {"Get", "Peek"} /\ last.key = k) =>
                       (last.ret /\ last.val = EntryOf(last.pre, k).value)

\* Get finds a key aged exactly duration in a call whose sweep evicted another
C3_Witness ==
    /\ last.op = "Get"
    /\ last.ret
    /\ last.key \in DOMAIN last.pre.items
    /\ last.now - EntryOf(last.pre, last.key).tm = duration
    /\ Len(last.mid.evictList) < Len(last.pre.evictList)

\* the entries of es other than the one of key k, in the same order
WithoutKey(es, k) == LET Keep(e) == e.key # k IN SelectSeq(es, Keep)

\* every key of the index map reaches an element of the list that holds it
IndexAgrees(s) ==
    \A k \in DOMAIN s.items :
        InList(s.evictList, s.items[k]) /\ EntryOf(s, k).key = k

C6_Get ==
    last.op = "Get" =>
        IF last.key \in DOMAIN last.mid.items
        THEN /\ last.ret
             /\ last.val = EntryOf(last.mid, last.key).value
             /\ last.now <= last.now2 /\ last.now2 = clock
             /\ Entries(Post)
                    = <<[EntryOf(last.mid, last.key) EXCEPT !.tm = last.now2]>>
                      \o WithoutKey(Entries(last.mid), last.key)
             /\ DOMAIN items = DOMAIN last.mid.items
             /\ items[last.key] = evictList[1]
             /\ IndexAgrees(Post)
             /\ KeysOf(Cache)[Len(KeysOf(Cache))] = last.key
             /\ \A t \in clock..MaxClock :
                    LET ks == KeysOp(Cache, t).keys
                    IN  (\E i \in 1..Len(ks) : ks[i] = last.key)
                            => ks[Len(ks)] = last.key
        ELSE /\ ~last.ret
             /\ last.val = NoValue
             /\ Post = last.mid

\* Get of a key that was not at the front, at a later time than its last touch
C6_Witness ==
    /\ last.op = "Get"
    /\ last.ret
    /\ last.mid.items[last.key] > 1
    /\ EntryOf(last.mid, last.key).tm < last.now2

\* C7 (Peek, Contains, Keys and Len are read-only apart from the sweep): every
\* entry that remains after the call has the value, the time and the relative
\* position it had before the call.
C7_ReadOnly ==
    last.op \in {"Peek", "Contains", "Keys", "Len"} =>
        /\ Post = last.mid
        /\ \A k \in DOMAIN items :
               k \in DOMAIN last.pre.items /\ EntryOf(Post, k) = EntryOf(last.pre, k)
        /\ LET Stays(e) == e.key \in DOMAIN items
           IN  Entries(Post) = SelectSeq(Entries(last.pre), Stays)

\* Peek finds an older key behind a newer one, after its last touch
C7_Witness ==
    /\ last.op = "Peek"
    /\ last.ret
    /\ items[last.key] = 2
    /\ EntryOf(Post, last.key).tm < clock

\* the positions of the callback log at which key k was handed over
CallsFor(log, k) == {i \in 1..Len(log) : log[i][1] = k}

\* what Remove does to a key that is present after the sweep: the entry leaves
\* the list and the map, the others stay as they are, and the callback, when
\* there is one, gets the key and its value exactly once
RemovedPresent ==
    /\ last.ret
    /\ last.key \notin DOMAIN items
    /\ DOMAIN items = (DOMAIN last.mid.items) \ {last.key}
    /\ Entries(Post) = WithoutKey(Entries(last.mid), last.key)
    /\ IndexAgrees(Post)
    /\ IF onEvictCall
       THEN /\ Cardinality(CallsFor(last.log, last.key)) = 1
            /\ \A i \in CallsFor(last.log, last.key) :
                   last.log[i] = <<last.key, EntryOf(last.mid, last.key).value>>
       ELSE last.log = <<>>

\* C8 as stated (Remove): a present key is removed from both structures with
\* exactly one callback, the rest unchanged, and true is returned; for an
\* absent key Remove returns false and no callback is made for that key.
C8_RemoveAsStated ==
    last.op = "Remove" =>
        IF last.key \in DOMAIN last.mid.items
        THEN RemovedPresent
        ELSE ~last.ret /\ CallsFor(last.log, last.key) = {}

\* C8 (Remove), amended: as stated, except that for a key absent after the
\* sweep the callback may have been made once for it by the sweep of this very
\* call, namely when the key was stored and expired as Remove was called;
\* Remove returns false and changes nothing more.
C8_Remove ==
    last.op = "Remove" =>
        IF last.key \in DOMAIN last.mid.items
        THEN RemovedPresent
        ELSE /\ ~last.ret
             /\ Post = last.mid
             /\ Cardinality(CallsFor(last.log, last.key)) <= 1
             /\ \A i \in CallsFor(last.log, last.key) :
                    /\ onEvictCall
                    /\ last.key \in ExpiredKeys
                    /\ last.log[i] = <<last.key, EntryOf(last.pre, last.key).value>>

\* Remove takes out a key in a call whose sweep evicted the other key
C8_Witness ==
    /\ last.op = "Remove"
    /\ last.ret
    /\ onEvictCall
    /\ Len(last.log) = 2
    /\ last.log[2][1] = last.key

\* C9 (Purge): the callback is made exactly once for each entry present when
\* Purge is called, expired or not, with its key and value; afterwards the list
\* and the map are empty, Len is 0, Keys is empty, and Add of any key returns
\* true.
C9_Purge ==
    last.op = "Purge" =>
        /\ evictList = <<>>
        /\ items = EmptyMap
        /\ elems = EmptyMap
        /\ IF onEvictCall
           THEN /\ Len(last.log) = Len(last.pre.evictList)
                /\ \A k \in DOMAIN last.pre.items :
                       /\ Cardinality(CallsFor(last.log, k)) = 1
                       /\ \A i \in CallsFor(last.log, k) :
                              last.log[i] = <<k, EntryOf(last.pre, k).value>>
           ELSE last.log = <<>>
        /\ LenOp(Cache, clock).n = 0
        /\ KeysOp(Cache, clock).keys = <<>>
        /\ \A k \in Keys, v \in Values : AddOp(Cache, k, v, clock, clock).ret

\* Purge of two entries, one of them expired and one not
C9_Witness ==
    /\ last.op = "Purge"
    /\ onEvictCall
    /\ Len(last.pre.evictList) = 2
    /\ \E k \in DOMAIN last.pre.items : clock - EntryOf(last.pre, k).tm > duration
    /\ \E k \in DOMAIN last.pre.items : clock - EntryOf(last.pre, k).tm <= duration

\* the keys that were stored and not older than duration as the call read the clock
LiveKeys == (DOMAIN last.pre.items) \ ExpiredKeys

\* C10 (Keys): the result holds every live key exactly once and nothing else,
\* its length is what Len returns at the same instant, and it runs from the
\* oldest to the newest last touch.
C10_Keys ==
    last.op = "Keys" =>
        /\ {last.keys[i] : i \in 1..Len(last.keys)} = LiveKeys
        /\ Len(last.keys) = Cardinality(LiveKeys)
        /\ Len(last.keys) = LenOp(Cache, clock).n
        /\ \A i, j \in 1..Len(last.keys) :
               i < j => EntryOf(Post, last.keys[i]).tm <= EntryOf(Post, last.keys[j]).tm

\* the keys whose entry the call took out of the cache: those stored before and
\* not after, and the key Add stored anew after the sweep had evicted it
RemovedKeys ==
    {k \in DOMAIN last.pre.items :
        \/ k \notin DOMAIN items
        \/ last.op = "Add" /\ last.ret /\ last.key = k}

\* C11 (callback accounting): with a callback configured, a call hands to the
\* callback exactly the entries it removes, each once, with the key and the
\* value the entry held, and none that stays; so the successful Adds of the
\* call equal its callbacks plus the growth of the list and of the map.
C11_Accounting ==
    (onEvictCall /\ ~Idle) =>
        /\ Len(last.log) = Cardinality(RemovedKeys)
        /\ {last.log[i] : i \in 1..Len(last.log)}
               = {<<k, EntryOf(last.pre, k).value>> : k \in RemovedKeys}
        /\ (IF last.op = "Add" /\ last.ret THEN 1 ELSE 0)
               = Len(last.log) + Len(evictList) - Len(last.pre.evictList)
        /\ (IF last.op = "Add" /\ last.ret THEN 1 ELSE 0)
               = Len(last.log) + Cardinality(DOMAIN items)
                     - Cardinality(DOMAIN last.pre.items)

\* Add stores anew a key that the sweep of the same call has just evicted
C11_Witness ==
    /\ onEvictCall
    /\ last.op = "Add"
    /\ last.ret
    /\ Len(last.log) = 1
    /\ last.log[1][1] = last.key
    /\ Len(evictList) = 1

\* C12 (PurgeExpired is idempotent): a second PurgeExpired at the same clock
\* value leaves the cache as the first one left it and makes no callback.
C12_Idempotent ==
    last.op = "PurgeExpired" =>
        LET again == PurgeExpiredOp(Cache, clock)
        IN  /\ Snap(again.c) = Post
            /\ again.c.log = <<>>

ListKeys(s) == {Entries(s)[i].key : i \in 1..Len(s.evictList)}

\* C16 (structural invariant): the keys of the index map are the keys of the
\* list, no key is twice in the list, and the element the map holds for a key
\* is in the list and holds that key.
C16_Structure ==
    /\ ListKeys(Post) = DOMAIN items
    /\ Len(evictList) = Cardinality(DOMAIN items)
    /\ \A i, j \in 1..Len(evictList) :
           i # j => /\ evictList[i] # evictList[j]
                    /\ Entries(Post)[i].key # Entries(Post)[j].key
    /\ IndexAgrees(Post)
    /\ DOMAIN elems = Range(evictList)

\* Remove takes the front entry out and the older one stays
C16_Witness ==
    /\ last.op = "Remove"
    /\ last.ret
    /\ Len(last.pre.evictList) = 2
    /\ last.pre.items[last.key] = 1
    /\ Len(evictList) = 1

\* the key whose time the call set, if it set one
Touched ==
    IF last.op \in {"Add", "Update", "Get"} /\ last.ret THEN {last.key} ELSE {}

\* C17 (recency order): the times in the list never increase from front to
\* back; a call that sets an entry's time puts that entry at the front, and the
\* other entries keep their order.
C17_Order ==
    /\ \A i, j \in 1..Len(evictList) :
           i < j => Entries(Post)[i].tm >= Entries(Post)[j].tm
    /\ ~Idle =>
        /\ \A k \in DOMAIN items :
               (k \notin DOMAIN last.pre.items
                    \/ EntryOf(Post, k).tm # EntryOf(last.pre, k).tm)
                   => (k \in Touched /\ items[k] = evictList[1])
        /\ \A k \in Touched : items[k] = evictList[1] /\ EntryOf(Post, k).tm = clock
        /\ LET Others(e) == e.key \notin Touched
               Stay(e) == e.key \in DOMAIN items /\ e.key \notin Touched
           IN  SelectSeq(Entries(Post), Others) = SelectSeq(Entries(last.pre), Stay)

\* Get brings the older of two entries to the front, with a later time
C17_Witness ==
    /\ last.op = "Get"
    /\ last.ret
    /\ Len(evictList) = 2
    /\ last.pre.items[last.key] = 2
    /\ Entries(Post)[1].tm > Entries(Post)[2].tm

\* key k is in the index map or in the list
Stored(k) == k \in DOMAIN items \/ k \in ListKeys(Post)

\* C18 (removal is terminal): a key that is absent, or that the sweep of a call
\* has evicted, is stored again only by an Add of that key that returns true.
C18_Terminal ==
    [][\A k \in Keys :
          (/\ Stored(k)'
           /\ \/ ~Stored(k)
              \/ last'.op # "none" /\ k \notin DOMAIN last'.mid.items)
              => (last'.op = "Add" /\ last'.key = k /\ last'.ret)]_vars

\* Update of a key that the sweep of the same call evicted: it stays absent
C18_Witness ==
    /\ last.op = "Update"
    /\ ~last.ret
    /\ last.key \in DOMAIN last.pre.items
    /\ ~Stored(last.key)

\* C19 (values agree with a reference map): a value that Get or Peek returns
\* as found, and a value handed to the callback, is the value of the latest
\* successful Add or Update of that key, no removal of the key lying between.
C19_Values ==
    ~Idle =>
        /\ (last.op \in {"Get", "Peek"} /\ last.ret) =>
               (last.key \in DOMAIN written /\ last.val = written[last.key])
        /\ \A i \in 1..Len(last.log) :
               /\ last.log[i][1] \in DOMAIN written
               /\ last.log[i][2] = written[last.log[i][1]]

\* Peek finds the value "b" of the older of two keys
C19_Witness ==
    /\ last.op = "Peek"
    /\ last.ret
    /\ last.val = "b"
    /\ Len(evictList) = 2
    /\ items[last.key] = 2
    /\ last.key \in DOMAIN written

\* ================================================= goroutines and the mutex
\* The locking protocol of the methods, with several goroutines.  Every method
\* but Print starts with c.Lock() and defer c.Unlock(): the goroutine waits
\* for the mutex, runs sweep and body holding it, and gives it back as it
\* returns.  The clock stands still while the goroutines interleave.

\* a mutex that lets its holder lock it again
CanLockReentrant(t) == mutex = Nil \/ mutex = t

\* sync.Mutex.Lock returns only while nobody holds the mutex
CanLock(t) == mutex = Nil

\* a method that gives the mutex back only on the path that returns true
AfterEarlyReturn(t, r) == IF r.ret THEN Nil ELSE t

\* the holder of the mutex once the method of goroutine t has returned with
\* results r: defer c.Unlock() runs on every return path
AfterReturn(t, r) == Nil

\* the calls of the locking methods
Calls ==
    [op : {"Add", "Update"}, key : Keys, value : Values]
        \cup [op : {"Get", "Contains", "Peek", "Remove"}, key : Keys, value : {NoValue}]
        \cup [op : {"Keys", "Len", "PurgeExpired", "Purge"}, key : {Nil}, value : {NoValue}]

\* what the call does to cache c; o is the order in which Purge visits the map
Run(call, c, o) ==
    CASE call.op = "Add"          -> AddOp(c, call.key, call.value, clock, clock)
      [] call.op = "Update"       -> UpdateOp(c, call.key, call.value, clock, clock)
      [] call.op = "Get"          -> GetOp(c, call.key, clock, clock)
      [] call.op = "Contains"     -> ContainsOp(c, call.key, clock)
      [] call.op = "Peek"         -> PeekOp(c, call.key, clock)
      [] call.op = "Remove"       -> RemoveOp(c, call.key, clock)
      [] call.op = "Keys"         -> KeysOp(c, clock)
      [] call.op = "Len"          -> LenOp(c, clock)
      [] call.op = "PurgeExpired" -> PurgeExpiredOp(c, clock)
      [] call.op = "Purge"        -> PurgeOp(c, o, clock)

\* the cache as it is when the call makes its first callback: Purge calls
\* before it deletes the key; removeElement calls after it has taken the element
\* out of the list and the map, first for the expired back entry of the sweep,
\* else for the key of Remove
AtFirstCallback(call, c, o) ==
    IF call.op = "Purge"
    THEN c
    ELSE IF Back(c.evictList) # Nil /\ Expired(c.elems[Back(c.evictList)].tm, clock)
         THEN removeElement(c, Back(c.evictList))
         ELSE removeElement(c, c.items[call.key])

\* NewTimedCache, and the goroutines about to call
InitConc ==
    /\ clock = 0
    /\ duration \in Durations
    /\ onEvictCall \in BOOLEAN
    /\ reenters \in BOOLEAN
    /\ reenters => onEvictCall
    /\ evictList = <<>>
    /\ items = EmptyMap
    /\ elems = EmptyMap
    /\ last = NoCall
    /\ written = EmptyMap
    /\ mutex = Nil
    /\ pc = [t \in Threads |-> "idle"]

\* goroutine t calls a locking method and stands at c.Lock()
Call(t) ==
    /\ pc[t] = "idle"
    /\ pc' = [pc EXCEPT ![t] = "waiting"]
    /\ UNCHANGED <<clock, duration, onEvictCall, evictList, items, elems, last,
                   written, mutex, reenters>>

\* c.Lock() returns to goroutine t, at the start of a method or of a method
\* that the callback has called
Lock(t) ==
    /\ pc[t] \in {"waiting", "incallback"}
    /\ CanLock(t)
    /\ mutex' = t
    /\ pc' = [pc EXCEPT ![t] = IF pc[t] = "waiting" THEN "locked" ELSE "nested"]
    /\ UNCHANGED <<clock, duration, onEvictCall, evictList, items, elems, last,
                   written, reenters>>

\* goroutine t, holding the mutex, runs sweep and body of its method; a
\* callback that calls back into the cache stops it at its first callback,
\* standing at the inner c.Lock(); otherwise the method returns and unlocks
Body(t) ==
    /\ pc[t] = "locked"
    /\ \E call \in Calls :
       \E o \in IF call.op = "Purge" THEN Orders(items) ELSE {<<>>} :
         \E r \in {Run(call, Cache, o)} :
           \E post \in {IF reenters /\ r.c.log # <<>>
                        THEN Snap(AtFirstCallback(call, Cache, o))
                        ELSE Snap(r.c)} :
              /\ evictList' = post.evictList
              /\ items' = post.items
              /\ elems' = post.elems
              /\ IF reenters /\ r.c.log # <<>>
                 THEN /\ pc' = [pc EXCEPT ![t] = "incallback"]
                      /\ mutex' = mutex
                 ELSE /\ pc' = [pc EXCEPT ![t] = "idle"]
                      /\ mutex' = AfterReturn(t, r)
    /\ UNCHANGED <<clock, duration, onEvictCall, last, written, reenters>>

\* goroutine t calls Print and walks the list, taking no lock
PrintStart(t) ==
    /\ pc[t] = "idle"
    /\ pc' = [pc EXCEPT ![t] = "printing"]
    /\ UNCHANGED <<clock, duration, onEvictCall, evictList, items, elems, last,
                   written, mutex, reenters>>

\* Print returns; what it printed is kept nowhere
PrintEnd(t) ==
    /\ pc[t] = "printing"
    /\ pc' = [pc EXCEPT ![t] = "idle"]
    /\ UNCHANGED <<clock, duration, onEvictCall, evictList, items, elems, last,
                   written, mutex, reenters>>

NextConc ==
    \E t \in Threads :
        \/ Call(t)
        \/ Lock(t)
        \/ Body(t)
        \/ PrintStart(t)
        \/ PrintEnd(t)

\* the goroutines and the mutex, under any scheduling
SpecConc == InitConc /\ [][NextConc]_vars

\* the method of goroutine t leaves its body: it returns, or it reaches a
\* callback that calls the cache.  With NextConc this is a step of Body(t).
Runs(t) ==
    /\ pc[t] = "locked"
    /\ \E q \in {"idle", "incallback"} : pc' = [pc EXCEPT ![t] = q]

\* fair scheduling: a goroutine inside a method body goes on running, and
\* sync.Mutex hands the mutex to a goroutine that keeps waiting for it
\* (starvation mode)
SpecFair ==
    /\ SpecConc
    /\ \A t \in Threads : WF_pc(Runs(t)) /\ SF_vars(Lock(t))

\* goroutine t is inside a method, reading or writing the list or the map
Accessing(t) == pc[t] \in {"locked", "incallback", "nested", "printing"}

\* C14 (mutual exclusion): a goroutine inside any exported method, Print
\* included, holds the mutex, so that at most one goroutine is at the list and
\* the map at a time.
C14_MutualExclusion ==
    /\ \A t \in Threads : Accessing(t) => mutex = t
    /\ \A t, u \in Threads : (Accessing(t) /\ Accessing(u)) => t = u

\* C15 (re-entrancy): the callback runs while its goroutine holds the mutex;
\* when it calls a locking method of the same cache, that call never gets the
\* mutex, the outer method never returns, nobody else gets the mutex, and the
\* list and the map stay as they are, consistent.
C15_Reentrancy ==
    [][\A t \in Threads :
          pc[t] = "incallback" =>
              /\ mutex = t /\ mutex' = t
              /\ pc'[t] = "incallback"
              /\ \A u \in Threads : pc[u] = "waiting" => pc'[u] = "waiting"
              /\ UNCHANGED <<evictList, items, elems>>
              /\ ListKeys(Post) = DOMAIN items
              /\ IndexAgrees(Post)]_vars

\* a goroutine stands in the callback at the inner Lock while another waits,
\* and an entry is still stored
C15_Witness ==
    \E t, u \in Threads :
        /\ pc[t] = "incallback"
        /\ pc[u] = "waiting"
        /\ Len(evictList) >= 1

\* C20 (progress): with a callback that returns without calling the cache, a
\* goroutine outside the locking methods does not hold the mutex, whichever
\* way its method returned, and a goroutine waiting for the mutex gets it and
\* its method returns.
C20_Progress ==
    /\ [](~reenters =>
            \A t \in Threads : pc[t] \in {"idle", "waiting", "printing"} => mutex # t)
    /\ [](~reenters => (mutex # Nil => pc[mutex] = "locked"))
    /\ \A t \in Threads : (~reenters /\ pc[t] = "waiting") ~> (pc[t] = "idle")

\* a goroutine waits for the mutex while another holds it, entries being stored
C20_Witness ==
    \E t, u \in Threads :
        /\ ~reenters
        /\ onEvictCall
        /\ pc[t] = "waiting"
        /\ pc[u] = "locked"
        /\ mutex = u
        /\ Len(evictList) = NumKeys
====
